---- MODULE Spec2Model ----
(***************************************************************************)
(* copy-type: a VS Code extension that copies the inferred type at the     *)
(* cursor.  The module models the cached-session implementation            *)
(* (src/src/extension.ts, lines 1-379): the bounded directory walk         *)
(* getAllTsFiles, the node resolver findMostSpecificNodeAtPosition, the    *)
(* type rendering with its one-level parent fallback, the session state    *)
(* (fileCache, fileVersions, languageService, ...) and the command         *)
(* handler copy-type.copyTypeAtCursor.                                     *)
(*                                                                         *)
(* The hover-cache implementation (src/unnamed/part_000) is modelled next  *)
(* to it: provideHover, its cached pair and its command handler.           *)
(*                                                                         *)
(* The specifications of the module:                                       *)
(*   SpecWalk     - getAllTsFiles applied to a family of directory trees   *)
(*   SpecWalkFair - SpecWalk with the walk's steps weakly fair             *)
(*   SpecResolve  - the resolver and the fallback applied to syntax trees  *)
(*   Spec         - the session and the command handler                    *)
(*   SpecRace     - Spec with invocations interleaved at every await       *)
(*   SpecLife     - SpecRace with the deactivation                         *)
(*   SpecHover    - the hover provider and the command of the hover cache  *)
(*   SpecHoverFair - SpecHover with the host's steps weakly fair           *)
(***************************************************************************)
EXTENDS Integers, Sequences, FiniteSets, TLC

VARIABLES
    wk,                   \* SpecWalk: the walk in progress
    rs,                   \* SpecResolve: the resolution in progress
    languageService,      \* ts.LanguageService | null
    program,              \* ts.Program | null
    typeChecker,          \* ts.TypeChecker | null
    serviceHost,          \* ts.LanguageServiceHost | null
    fileCache,            \* Map<string, string>
    fileVersions,         \* Map<string, number>
    isServiceInitialized, \* boolean
    currentWorkspaceRoot, \* string | null
    docText,              \* the editor's documents: their current text
    inv,                  \* the command invocations in flight
    clipboard,            \* the host clipboard
    svcCount,             \* how many language services were created
    currentTypeInfo,      \* hover variant: string | null
    currentPosition,      \* hover variant: vscode.Position | null
    cachedDoc,            \* hover variant: the document the cached pair is of
    cp,                   \* hover variant: the copy command in flight
    hr                    \* hover variant: the hover request in flight

sessionVars == <<languageService, program, typeChecker, serviceHost, fileCache,
                 fileVersions, isServiceInitialized, currentWorkspaceRoot>>
hostVars == <<docText, inv, clipboard, svcCount>>
hoverVars == <<currentTypeInfo, currentPosition, cachedDoc, cp, hr>>
vars == <<wk, rs, sessionVars, hostVars, hoverVars>>

Null == "null"                 \* null or undefined, where a string is expected
NullObj == [null |-> TRUE]     \* null, where an object is expected

(***************************************************************************)
(* Names are sequences of tokens in which every '.' is a token of its own: *)
(* ".git" is <<".", "git">>, "a.ts" is <<"a", ".", "ts">>.  A path is the  *)
(* sequence of its names.                                                  *)
(***************************************************************************)

\* String.prototype.startsWith('.')
NeverStartsWithDot(name) == FALSE
StartsWithDot(name) == Len(name) > 0 /\ name[1] = "."

\* the index of the last '.' of a name, 0 when it has none
LastDot(name) ==
    LET dots == {i \in 1..Len(name) : name[i] = "."}
    IN  IF dots = {} THEN 0 ELSE CHOOSE i \in dots : \A j \in dots : j <= i

\* path.extname: from the last '.' to the end; empty when there is no '.'
\* or the only '.' leads the name
extname(name) ==
    LET d == LastDot(name)
    IN  IF d <= 1 THEN <<>> ELSE SubSeq(name, d, Len(name))

skipDirs ==
    { <<"node_modules">>, <<".", "git">>, <<"dist">>, <<"build">>,
      <<".", "vscode">>, <<".", "next">>, <<".", "nuxt">>, <<"coverage">>,
      <<".", "nyc_output">>, <<"tmp">>, <<"temp">>, <<".", "cache">>,
      <<".", "parcel-cache">> }

sourceExts ==
    { <<".", "ts">>, <<".", "tsx">>, <<".", "js">>, <<".", "jsx">> }

maxDepth == 10
maxFiles == 1000

(***************************************************************************)
(* A directory tree.  An entry is what fs.readdirSync(dir, {withFileTypes})*)
(* yields: a name and a kind ("dir", "file", "link" for a symbolic link,   *)
(* for which isDirectory() and isFile() are both false).  A directory      *)
(* carries its entries and whether reading it succeeds.                    *)
(***************************************************************************)
File(name) == [name |-> name, kind |-> "file", readable |-> TRUE, entries |-> <<>>]
Link(name) == [name |-> name, kind |-> "link", readable |-> TRUE, entries |-> <<>>]
Dir(name, entries) ==
    [name |-> name, kind |-> "dir", readable |-> TRUE, entries |-> entries]
NoReadDir(name) ==
    [name |-> name, kind |-> "dir", readable |-> FALSE, entries |-> <<>>]

\* the directory reached from `tree` by the entry indexes `ixs`
RECURSIVE DirAt(_, _)
DirAt(tree, ixs) ==
    IF ixs = <<>> THEN tree ELSE DirAt(tree.entries[Head(ixs)], Tail(ixs))

(***************************************************************************)
(* getAllTsFiles.  The recursion of searchFiles is kept as an explicit     *)
(* stack: a frame is one activation of searchFiles inside its for loop     *)
(* (dir: the directory, as entry indexes from the root; path: its names;   *)
(* i: the next entry).  `reads` records every directory whose entries      *)
(* were read and the depth of the call that read it.                       *)
(***************************************************************************)
WalkStart == [stack |-> <<>>, files |-> <<>>, reads |-> <<>>]

\* the guard that opens searchFiles (line 303)
searchFilesGuardNoDepth(w, depth) == Len(w.files) > maxFiles
searchFilesGuard(w, depth) == depth > maxDepth \/ Len(w.files) > maxFiles

\* searchFiles without its try/catch: a failing readdirSync unwinds every
\* activation
searchFilesUncaught(w, tree, ixs, path, depth) ==
    IF searchFilesGuard(w, depth)
    THEN w
    ELSE IF ~DirAt(tree, ixs).readable
         THEN [w EXCEPT !.stack = <<>>]
         ELSE [w EXCEPT
                 !.stack = Append(@, [dir |-> ixs, path |-> path,
                                      depth |-> depth, i |-> 1]),
                 !.reads = Append(@, [path |-> path, depth |-> depth])]

\* searchFiles(dir, depth) up to its for loop: the guard and readdirSync
searchFiles(w, tree, ixs, path, depth) ==
    IF searchFilesGuard(w, depth)
    THEN w
    ELSE IF ~DirAt(tree, ixs).readable
         THEN w      \* readdirSync throws, the catch swallows it
         ELSE [w EXCEPT
                 !.stack = Append(@, [dir |-> ixs, path |-> path,
                                      depth |-> depth, i |-> 1]),
                 !.reads = Append(@, [path |-> path, depth |-> depth])]

\* for (const entry of entries): the entry after entry i
sameEntry(i) == i
nextEntry(i) == i + 1

\* one turn of the for loop of the innermost activation
searchStep(w, tree) ==
    LET n  == Len(w.stack)
        f  == w.stack[n]
        es == DirAt(tree, f.dir).entries
        pop == [w EXCEPT !.stack = SubSeq(@, 1, n - 1)]
    IN  IF f.i > Len(es) \/ Len(w.files) > maxFiles
        THEN pop
        ELSE LET e  == es[f.i]
                 w1 == [w EXCEPT !.stack[n].i = nextEntry(f.i)]
                 fullPath == Append(f.path, e.name)
             IN  IF e.kind = "dir"
                 THEN IF e.name \notin skipDirs /\ ~StartsWithDot(e.name)
                      THEN searchFiles(w1, tree, Append(f.dir, f.i), fullPath,
                                       f.depth + 1)
                      ELSE w1
                 ELSE IF e.kind = "file"
                      THEN IF extname(e.name) \in sourceExts
                           THEN [w1 EXCEPT !.files = Append(@, fullPath)]
                           ELSE w1
                      ELSE w1

WalkIdle == [pc |-> "idle", shape |-> Null, w |-> WalkStart]
ResolveIdle == [pc |-> "idle"]

\* the walk has returned
WalkDone(w) == w.stack = <<>>

RECURSIVE RunWalk(_, _)
RunWalk(w, tree) == IF WalkDone(w) THEN w ELSE RunWalk(searchStep(w, tree), tree)

\* getAllTsFiles(rootPath): the files of the finished walk over the tree
\* found at rootPath
getAllTsFiles(rootPath, tree) ==
    RunWalk(searchFiles(WalkStart, tree, <<>>, rootPath, 0), tree).files

(***************************************************************************)
(* The state after the module is loaded (lines 6-16).                      *)
(***************************************************************************)
SessionInit ==
    /\ languageService = NullObj
    /\ program = NullObj
    /\ typeChecker = NullObj
    /\ serviceHost = NullObj
    /\ fileCache = << >>
    /\ fileVersions = << >>
    /\ isServiceInitialized = FALSE
    /\ currentWorkspaceRoot = Null

HostIdle ==
    /\ docText = << >>
    /\ inv = << >>
    /\ clipboard = Null
    /\ svcCount = 0

(***************************************************************************)
(* The hover variant: its module state after loading, no hover request    *)
(* and no command in flight.  Its strings are sequences of tokens; the    *)
(* empty sequence stands for null and for '', which every test of the     *)
(* code treats alike.                                                      *)
(***************************************************************************)
NoInfo == << >>
CopyIdle ==
    [pc |-> "idle", doc |-> Null, position |-> NullObj, typeInfo |-> NoInfo,
     outcome |-> Null, prev |-> NoInfo, repeat |-> FALSE, depth |-> 0]
HoverIdle ==
    [pc |-> "idle", doc |-> Null, position |-> NullObj, typeInfo |-> NoInfo,
     depth |-> 0]

HoverOff ==
    /\ currentTypeInfo = NoInfo
    /\ currentPosition = NullObj
    /\ cachedDoc = Null
    /\ cp = CopyIdle
    /\ hr = HoverIdle

(***************************************************************************)
(* Syntax trees.  A tree has nodes 1..n, node 1 the source file; parent[k] *)
(* is 0 for the root; start[k] is node.getStart(sourceFile) and end[k] is  *)
(* node.getEnd().  ts.forEachChild visits the children in order.           *)
(***************************************************************************)
Children(tree, k) == {c \in 1..tree.n : tree.parent[c] = k}

\* the children of a node as ts.forEachChild yields them
RECURSIVE InOrder(_)
InOrder(S) ==
    IF S = {} THEN <<>>
    ELSE LET m == CHOOSE x \in S : \A y \in S : x <= y
         IN  <<m>> \o InOrder(S \ {m})

NoBest == [result |-> 0, bestStart |-> -1, bestEnd |-> 0, infinite |-> TRUE]

\* the test that lets a node replace the best one found so far (line 355)
MorePrecise(start, end, best) ==
    \/ start > best.bestStart
    \/ (start = best.bestStart /\ (best.infinite \/ end < best.bestEnd))

\* visit(node) of findMostSpecificNodeAtPosition, with ts.forEachChild
RECURSIVE visit(_, _, _, _), visitEach(_, _, _, _)
visit(tree, node, position, best) ==
    LET start == tree.start[node]
        end   == tree.end[node]
    IN  IF position >= start /\ position < end
        THEN visitEach(tree, InOrder(Children(tree, node)), position,
                       IF MorePrecise(start, end, best)
                       THEN [result |-> node, bestStart |-> start,
                             bestEnd |-> end, infinite |-> FALSE]
                       ELSE best)
        ELSE best
visitEach(tree, kids, position, best) ==
    IF kids = <<>> THEN best
    ELSE visitEach(tree, Tail(kids), position,
                   visit(tree, Head(kids), position, best))

\* findMostSpecificNodeAtPosition: the node found, 0 for null
findMostSpecificNodeAtPosition(tree, position) ==
    visit(tree, 1, position, NoBest).result

(***************************************************************************)
(* Types.  The checker hands out type objects, compared by identity        *)
(* (parentType !== type); typeToString renders one with the fixed flags.   *)
(* anyType and errorType are two objects that both render as 'any'.        *)
(* NoType stands for getTypeAtLocation returning nothing.                  *)
(***************************************************************************)
NoType == "undefined"
TypeObjs == {"anyType", "errorType", "numberType", "objectType"}

typeToString(type) ==
    IF type \in {"anyType", "errorType"} THEN "any"
    ELSE IF type = "numberType" THEN "number"
    ELSE "{ a: number; b: string; }"

\* lines 149-198 of getVariableType: the type of the node, rendered, with
\* the fallback to the parent; Null when the node has no type
typeStringOfNodeTwoLevels(node, parent, typeAt) ==
    LET type == typeAt[node]
        p1   == parent[node]
        p2   == IF p1 = 0 THEN 0 ELSE parent[p1]
        up(k) == k # 0 /\ typeAt[k] # NoType /\ typeToString(typeAt[k]) # "any"
    IN  IF type = NoType THEN Null
        ELSE IF typeToString(type) # "any" THEN typeToString(type)
        ELSE IF up(p1) THEN typeToString(typeAt[p1])
        ELSE IF up(p2) THEN typeToString(typeAt[p2])
        ELSE "any"
typeStringOfNode(node, parent, typeAt) ==
    LET type == typeAt[node]
    IN  IF type = NoType
        THEN Null
        ELSE LET typeString == typeToString(type)
             IN  IF typeString = "any" /\ parent[node] # 0
                 THEN LET parentType == typeAt[parent[node]]
                      IN  IF parentType # NoType /\ parentType # type
                          THEN LET parentTypeString == typeToString(parentType)
                               IN  IF parentTypeString # "any"
                                   THEN parentTypeString
                                   ELSE typeString
                          ELSE typeString
                 ELSE typeString

(***************************************************************************)
(* SpecResolve: the resolver and the rendering over a family of trees.     *)
(***************************************************************************)
MaxNodes == 3     \* nodes of a syntax tree
MaxPos == 3       \* offsets run over 0..MaxPos

\* each child's range nested in its parent's, siblings disjoint
WellFormed(tree) ==
    /\ tree.parent[1] = 0
    /\ \A k \in 2..tree.n : tree.parent[k] \in 1..(k - 1)
    /\ \A k \in 1..tree.n : tree.start[k] <= tree.end[k]
    /\ \A k \in 2..tree.n :
          /\ tree.start[tree.parent[k]] <= tree.start[k]
          /\ tree.end[k] <= tree.end[tree.parent[k]]
    /\ \A j, k \in 2..tree.n :
          (j < k /\ tree.parent[j] = tree.parent[k]) =>
              (tree.end[j] <= tree.start[k])

SyntaxTrees ==
    UNION { { t \in [n : {n}, parent : [1..n -> 0..(n - 1)],
                    start : [1..n -> 0..MaxPos], end : [1..n -> 0..MaxPos]] :
              WellFormed(t) } : n \in 1..MaxNodes }

IsLeaf(tree, k) == Children(tree, k) = {}
Contains(tree, k, position) == tree.start[k] <= position /\ position < tree.end[k]

\* findMostSpecificNodeAtPosition(sourceFile, offset), lines 140-144
ResolveNode ==
    /\ rs.pc = "start"
    /\ LET node == findMostSpecificNodeAtPosition(rs.tree, rs.offset)
       IN  rs' = [rs EXCEPT !.pc = IF node = 0 THEN "none" ELSE "found",
                            !.node = node]
    /\ UNCHANGED <<wk, sessionVars, hostVars, hoverVars>>

\* the same call again on the unchanged tree
ResolveAgain ==
    /\ rs.pc = "found"
    /\ rs.again = 0
    /\ rs' = [rs EXCEPT !.again = findMostSpecificNodeAtPosition(rs.tree, rs.offset)]
    /\ UNCHANGED <<wk, sessionVars, hostVars, hoverVars>>

\* lines 149-198: the checker's types for the node, its parent and the
\* parent's parent are drawn, and the type string is computed
ResolveType ==
    /\ rs.pc = "found"
    /\ \E t1, t2, t3 \in TypeObjs \cup {NoType} :
          LET p1 == rs.tree.parent[rs.node]
              p2 == IF p1 = 0 THEN 0 ELSE rs.tree.parent[p1]
              typeAt == [k \in 1..rs.tree.n |->
                            IF k = rs.node THEN t1
                            ELSE IF k = p1 THEN t2
                            ELSE IF k = p2 THEN t3
                            ELSE "numberType"]
          IN  rs' = [rs EXCEPT
                       !.pc = "rendered",
                       !.typeAt = typeAt,
                       !.typeString = typeStringOfNode(rs.node, rs.tree.parent, typeAt)]
    /\ UNCHANGED <<wk, sessionVars, hostVars, hoverVars>>

ResolveInit ==
    /\ rs \in [pc : {"start"}, tree : SyntaxTrees, offset : 0..MaxPos,
               node : {0}, again : {0}, typeAt : {<<>>}, typeString : {Null}]
    /\ wk = WalkIdle
    /\ SessionInit
    /\ HostIdle
    /\ HoverOff

ResolveNext == ResolveNode \/ ResolveAgain \/ ResolveType

SpecResolve == ResolveInit /\ [][ResolveNext]_vars

(***************************************************************************)
(* Claims about the resolver and the rendering (SpecResolve).              *)
(***************************************************************************)

\* C6: the fallback to the parent triggers if and only if the child's
\* rendered string is 'any' and the parent's rendered string differs from
\* it and is not itself 'any'; in every other case the child's string is
\* returned unchanged, whatever the type of the parent's parent.
C6_FallbackIff ==
    (rs.pc = "rendered" /\ rs.typeAt[rs.node] # NoType) =>
        LET child  == typeToString(rs.typeAt[rs.node])
            p1     == rs.tree.parent[rs.node]
            hasStr == p1 # 0 /\ rs.typeAt[p1] # NoType
            parentStr == typeToString(rs.typeAt[p1])
        IN  rs.typeString =
                IF child = "any" /\ hasStr /\ parentStr # child /\ parentStr # "any"
                THEN parentStr
                ELSE child

\* the fallback has triggered: the node renders as 'any', its parent as
\* 'number', and 'number' is the result
C6_Witness ==
    /\ rs.pc = "rendered"
    /\ rs.tree.parent[rs.node] # 0
    /\ rs.typeAt[rs.node] = "anyType"
    /\ rs.typeAt[rs.tree.parent[rs.node]] = "numberType"
    /\ rs.typeString = "number"

\* C8: for a well-formed tree and an offset inside exactly one leaf,
\* findMostSpecificNodeAtPosition returns that leaf, and a repeated call
\* returns the same node.
C8_ReturnsLeaf ==
    rs.pc # "start" =>
        /\ \A k \in 1..rs.tree.n :
              (IsLeaf(rs.tree, k) /\ Contains(rs.tree, k, rs.offset)) => rs.node = k
        /\ (rs.again # 0 => rs.again = rs.node)

(***************************************************************************)
(* SpecWalk: the walk over a family of trees.                              *)
(***************************************************************************)
MaxBeyondDepth == 2     \* chains reach this far below maxDepth
MaxSmallFiles == 2      \* small directories hold up to this many files
MaxOverFiles == 2       \* wide directories hold up to maxFiles + this many

srcFile(i) == File(<<"f", ToString(i), ".", "ts">>)

\* a root holding n source files
WideTree(n) == Dir(<<>>, [i \in 1..n |-> srcFile(i)])

\* a root holding n source files, then a directory holding m more
WideThenSub(n, m) ==
    Dir(<<>>, [i \in 1..(n + 1) |->
                 IF i <= n THEN srcFile(i)
                 ELSE Dir(<<"sub">>, [j \in 1..m |-> srcFile(n + j)])])

\* d directories nested below the root, every directory holding k files
RECURSIVE ChainBelow(_, _, _)
ChainBelow(level, d, k) ==
    LET own == [i \in 1..k |-> srcFile(level * 10 + i)]
    IN  IF level >= d THEN own
        ELSE own \o <<Dir(<<"d", ToString(level + 1)>>, ChainBelow(level + 1, d, k))>>

ChainTree(d, k) == Dir(<<>>, ChainBelow(0, d, k))

\* entries of a small mixed directory: files with and without a source
\* extension, a symbolic link back to the root, directories of the skip
\* list, hidden directories, unreadable directories
MixedEntries ==
    << File(<<"a", ".", "ts">>),
       File(<<"README", ".", "md">>),
       Link(<<"loop">>),
       Dir(<<"src">>, << File(<<"b", ".", "ts">>),
                        Dir(<<"lib">>, << File(<<"c", ".", "tsx">>) >>) >>),
       Dir(<<"node_modules">>, << File(<<"m", ".", "ts">>) >>),
       Dir(<<".", "git">>, << File(<<"h", ".", "js">>) >>),
       Dir(<<"app">>, << Dir(<<"dist">>, << File(<<"o", ".", "js">>) >>),
                        File(<<"s", ".", "ts">>) >>),
       NoReadDir(<<"locked">>),
       Dir(<<"pkg">>, << NoReadDir(<<"priv">>), File(<<"p", ".", "ts">>) >>),
       Dir(<<"deep">>, << Link(<<"up">>),
                         Dir(<<".", "idea">>, << File(<<"x", ".", "ts">>) >>),
                         File(<<"q", ".", "jsx">>) >>) >>

\* a root holding two of the mixed entries and then a source file
MixedTree(n, m) == Dir(<<>>, << MixedEntries[n], MixedEntries[m], srcFile(9) >>)

WalkShapes ==
    [kind : {"mixed"}, n : DOMAIN MixedEntries, m : DOMAIN MixedEntries]
    \cup [kind : {"wide"}, n : (0..MaxSmallFiles) \cup ((maxFiles - 1)..(maxFiles + MaxOverFiles))
                          \cup {2 * maxFiles}, m : {0}]
    \cup [kind : {"widesub"}, n : {maxFiles - 1, maxFiles}, m : 1..MaxSmallFiles]
    \cup [kind : {"chain"}, n : 0..(maxDepth + MaxBeyondDepth), m : 0..MaxSmallFiles]

TreeOf(shape) ==
    IF shape.kind = "mixed" THEN MixedTree(shape.n, shape.m)
    ELSE IF shape.kind = "wide" THEN WideTree(shape.n)
    ELSE IF shape.kind = "widesub" THEN WideThenSub(shape.n, shape.m)
    ELSE ChainTree(shape.n, shape.m)

\* the files with a source extension below `entries`, in the order of the
\* entries, leaving out what lies in a directory of the skip list, in a
\* hidden directory or in a directory that cannot be read
RECURSIVE EligibleBelow(_, _)
EligibleBelow(entries, path) ==
    IF entries = <<>> THEN <<>>
    ELSE LET e == Head(entries)
             fullPath == Append(path, e.name)
             own == IF e.kind = "file" /\ extname(e.name) \in sourceExts
                    THEN <<fullPath>>
                    ELSE IF e.kind = "dir" /\ e.readable
                            /\ e.name \notin skipDirs /\ e.name[1] # "."
                    THEN EligibleBelow(e.entries, fullPath)
                    ELSE <<>>
         IN  own \o EligibleBelow(Tail(entries), path)

\* how many eligible files the tree of a shape holds
EligibleIn(shape) ==
    IF shape.kind = "mixed" THEN Len(EligibleBelow(TreeOf(shape).entries, <<>>))
    ELSE IF shape.kind = "wide" THEN shape.n
    ELSE IF shape.kind = "widesub" THEN shape.n + shape.m
    ELSE (shape.n + 1) * shape.m

WalkInit ==
    /\ wk \in [pc : {"start"}, shape : WalkShapes, w : {WalkStart}]
    /\ rs = ResolveIdle
    /\ SessionInit
    /\ HostIdle
    /\ HoverOff

\* getAllTsFiles is called: searchFiles(rootPath) enters the root
WalkCall ==
    /\ wk.pc = "start"
    /\ wk' = [wk EXCEPT !.pc = "walking",
                        !.w = searchFiles(WalkStart, TreeOf(wk.shape), <<>>, <<>>, 0)]
    /\ UNCHANGED <<rs, sessionVars, hostVars, hoverVars>>

\* one turn of the for loop
WalkTurn ==
    /\ wk.pc = "walking"
    /\ ~WalkDone(wk.w)
    /\ wk' = [wk EXCEPT !.w = searchStep(wk.w, TreeOf(wk.shape))]
    /\ UNCHANGED <<rs, sessionVars, hostVars, hoverVars>>

\* searchFiles(rootPath) has returned: getAllTsFiles returns files
WalkReturn ==
    /\ wk.pc = "walking"
    /\ WalkDone(wk.w)
    /\ wk' = [wk EXCEPT !.pc = "returned"]
    /\ UNCHANGED <<rs, sessionVars, hostVars, hoverVars>>

WalkNext == WalkCall \/ WalkTurn \/ WalkReturn

SpecWalk == WalkInit /\ [][WalkNext]_vars

(***************************************************************************)
(* Claims about the walk (SpecWalk).                                       *)
(***************************************************************************)

\* C9: for any directory tree the walk never returns more than maxFiles
\* (1000) files, and for a tree holding more eligible files than maxFiles
\* (e.g. 2000) it returns exactly maxFiles.
C9_AtMostMaxFiles ==
    wk.pc = "returned" =>
        /\ Len(wk.w.files) <= maxFiles
        /\ (EligibleIn(wk.shape) > maxFiles => Len(wk.w.files) = maxFiles)

\* C10: the walk never reads the entries of a directory nested more than
\* maxDepth (10) levels below the root, so every returned file sits in a
\* directory nested at most maxDepth levels below the root.
C10_DepthBound ==
    /\ \A i \in 1..Len(wk.w.reads) : Len(wk.w.reads[i].path) <= maxDepth
    /\ \A i \in 1..Len(wk.w.files) : Len(wk.w.files[i]) - 1 <= maxDepth

\* a walk of a chain deeper than maxDepth has returned, having read the
\* directory at depth maxDepth and collected a file from it
C10_Witness ==
    /\ wk.pc = "returned"
    /\ wk.shape.kind = "chain" /\ wk.shape.n > maxDepth
    /\ \E i \in 1..Len(wk.w.reads) : Len(wk.w.reads[i].path) = maxDepth
    /\ \E i \in 1..Len(wk.w.files) : Len(wk.w.files[i]) - 1 = maxDepth

\* a directory name the walk must not enter
Skipped(name) == name \in skipDirs \/ (Len(name) > 0 /\ name[1] = ".")

\* C11: no returned path has, between the root and the file, a directory
\* whose name is in the skip list or begins with '.', and no such directory
\* is ever read.
C11_SkipsListedAndHidden ==
    /\ \A i \in 1..Len(wk.w.files) :
          \A j \in 1..(Len(wk.w.files[i]) - 1) : ~Skipped(wk.w.files[i][j])
    /\ \A i \in 1..Len(wk.w.reads) :
          \A j \in 1..Len(wk.w.reads[i].path) : ~Skipped(wk.w.reads[i].path[j])

\* the walk of a root holding node_modules and .git has returned, with
\* only the source file beside them
C11_Witness ==
    /\ wk.pc = "returned"
    /\ wk.shape.kind = "mixed" /\ wk.shape.n = 5 /\ wk.shape.m = 6
    /\ wk.w.files = << <<srcFile(9).name>> >>
    /\ Len(wk.w.reads) = 1

\* the walk under the scheduling of the code: it is synchronous, every
\* turn of its loop is taken
SpecWalkFair == WalkInit /\ [][WalkNext]_vars /\ WF_vars(WalkNext)

\* C17: the walk terminates for every finite directory tree, trees with
\* symbolic links forming cycles included: getAllTsFiles returns.
C17_WalkTerminates == <>(wk.pc = "returned")

\* the walk of a root holding a symbolic link back to the root, and a
\* directory holding another, has returned
C17_Witness ==
    /\ wk.pc = "returned"
    /\ wk.shape.kind = "mixed" /\ wk.shape.n = 3 /\ wk.shape.m = 10
    /\ Len(wk.w.reads) = 2

\* C18: when reading a directory fails, only the subtree of that directory
\* is skipped: the walk returns normally with every eligible file of the
\* rest of the tree, those before the failure and those after it.
C18_UnreadableSkipped ==
    (wk.pc = "returned" /\ wk.shape.kind = "mixed") =>
        wk.w.files = EligibleBelow(TreeOf(wk.shape).entries, <<>>)

\* the walk has returned from a root whose second entry holds an
\* unreadable directory: the file before it, the file after it inside the
\* same directory and the file after that directory are all returned
C18_Witness ==
    /\ wk.pc = "returned"
    /\ wk.shape.kind = "mixed" /\ wk.shape.n = 1 /\ wk.shape.m = 9
    /\ wk.w.files = << <<MixedEntries[1].name>>,
                       <<MixedEntries[9].name, MixedEntries[9].entries[2].name>>,
                       <<srcFile(9).name>> >>

(***************************************************************************)
(* The workspace of the session specification: two workspace folders with  *)
(* one source file each, and a document outside every folder.              *)
(***************************************************************************)
Roots == {"A", "B"}
Docs == {"a", "b", "u"}

\* document.uri.fsPath
DocPath(doc) ==
    IF doc = "a" THEN << <<"A">>, <<"a", ".", "ts">> >>
    ELSE IF doc = "b" THEN << <<"B">>, <<"b", ".", "ts">> >>
    ELSE << <<"u", ".", "ts">> >>

\* vscode.workspace.getWorkspaceFolder(document.uri), Null for none
DocFolder(doc) ==
    IF doc = "a" THEN "A" ELSE IF doc = "b" THEN "B" ELSE Null

\* the directory found at a workspace root
FsTree(root) ==
    IF root = "A"
    THEN Dir(<<"A">>, << File(<<"a", ".", "ts">>),
                        Dir(<<"node_modules">>, << File(<<"m", ".", "ts">>) >>),
                        File(<<"README", ".", "md">>) >>)
    ELSE Dir(<<"B">>, << File(<<"b", ".", "ts">>),
                        Dir(<<".", "git">>, << File(<<"h", ".", "js">>) >>) >>)

\* the texts a document or a file can hold; "" is the empty text
Texts == {"", "d", "t"}

\* fs.existsSync and fs.readFileSync on the source files
DiskFiles == {DocPath("a"), DocPath("b")}
DiskText(path) == "d"

\* document.offsetAt(position): a position past the end is clamped to it
TextLen(text) == IF text = "" THEN 0 ELSE 3
offsetAt(text, position) == IF position > TextLen(text) THEN TextLen(text) ELSE position

\* the engine's parse of a text and the checker's types of its nodes
\* "d" stands for a declaration with an object type, whose name has no
\* type of its own; "t" for `function f(x) { return x; }`, where the
\* parameter and its name are both of type any
ParseOf(text) ==
    IF text = ""
    THEN [n |-> 1, parent |-> <<0>>, start |-> <<0>>, end |-> <<0>>]
    ELSE [n |-> 3, parent |-> <<0, 1, 2>>, start |-> <<0, 0, 1>>, end |-> <<3, 2, 2>>]

TypesOf(text) ==
    IF text = "" THEN <<"errorType">>
    ELSE IF text = "d" THEN <<"errorType", "objectType", "anyType">>
    ELSE <<"errorType", "anyType", "anyType">>

(***************************************************************************)
(* Maps (fileCache, fileVersions) are functions on the keys they hold.     *)
(***************************************************************************)
Has(map, key) == key \in DOMAIN map
Put(map, key, value) ==
    [k \in DOMAIN map \cup {key} |-> IF k = key THEN value ELSE map[k]]

\* a JavaScript string used as a condition: '' is falsy, like undefined
Truthy(map, key) == Has(map, key) /\ map[key] # ""

(***************************************************************************)
(* The language service host (lines 242-273).  `s` is the pair of maps     *)
(* [cache, versions] the host reads and writes.                            *)
(***************************************************************************)
\* getScriptVersion: fileVersions.get(fileName) || 1, as a string; the
\* model keeps the number, of which toString() is an injective image
getScriptVersion(s, fileName) ==
    IF Has(s.versions, fileName) /\ s.versions[fileName] # 0
    THEN s.versions[fileName]
    ELSE 1

\* the content test of getScriptSnapshot (line 254)
snapshotCached(s, fileName) == Truthy(s.cache, fileName)

\* getScriptSnapshot: the maps after the call and the text returned
\* (Null for undefined)
getScriptSnapshot(s, fileName) ==
    IF fileName \notin DiskFiles
    THEN [s |-> s, text |-> Null]
    ELSE IF snapshotCached(s, fileName)
         THEN [s |-> s, text |-> s.cache[fileName]]
         ELSE [s |-> [cache |-> Put(s.cache, fileName, DiskText(fileName)),
                      versions |-> Put(s.versions, fileName, 1)],
               text |-> DiskText(fileName)]

(***************************************************************************)
(* The engine behind languageService.getProgram(): the program is reused   *)
(* when every file it holds still reports the version it was parsed at;    *)
(* otherwise every host file is asked for its snapshot and then for its    *)
(* version, and is parsed anew unless that version is the one the held     *)
(* source file was parsed at.  `parsed` maps a file of the program to      *)
(* [version, text].                                                        *)
(***************************************************************************)
programUpToDate(ls, s) ==
    /\ ls.hasProgram
    /\ \A f \in DOMAIN ls.parsed : ls.parsed[f].version = getScriptVersion(s, f)

RECURSIVE syncFiles(_, _, _, _)
syncFiles(files, old, acc, s) ==
    IF files = <<>>
    THEN [parsed |-> acc, s |-> s]
    ELSE LET f    == Head(files)
             snap == getScriptSnapshot(s, f)
             ver  == getScriptVersion(snap.s, f)
         IN  IF snap.text = Null
             THEN syncFiles(Tail(files), old, acc, snap.s)
             ELSE syncFiles(Tail(files), old,
                            Put(acc, f,
                                IF Has(old, f) /\ old[f].version = ver
                                THEN old[f]
                                ELSE [version |-> ver, text |-> snap.text]),
                            snap.s)

\* the snapshot reads of one synchronization, in the order of syncFiles:
\* for each read that returned a text, the file, the version string the
\* host reports when the read is made and the text the read returns
RECURSIVE snapshotReads(_, _)
snapshotReads(files, s) ==
    IF files = <<>>
    THEN {}
    ELSE LET f    == Head(files)
             snap == getScriptSnapshot(s, f)
         IN  (IF snap.text = Null
              THEN {}
              ELSE {[file |-> f, version |-> getScriptVersion(s, f),
                     text |-> snap.text]})
             \cup snapshotReads(Tail(files), snap.s)

\* languageService.getProgram(): the service and the maps after the call.
\* `reads` is the log of the snapshot reads this service has made.
getProgram(ls, s) ==
    IF programUpToDate(ls, s)
    THEN [ls |-> ls, s |-> s]
    ELSE LET r == syncFiles(ls.host.files, ls.parsed, << >>, s)
         IN  [ls |-> [ls EXCEPT !.hasProgram = TRUE, !.parsed = r.parsed,
                                !.reads = @ \cup snapshotReads(ls.host.files, s)],
              s  |-> r.s]

(***************************************************************************)
(* The session: the module-level state as one record, so that the steps    *)
(* of getVariableType and initializeTypeScriptService are functions of it. *)
(***************************************************************************)
Session ==
    [languageService |-> languageService, program |-> program,
     typeChecker |-> typeChecker, serviceHost |-> serviceHost,
     fileCache |-> fileCache, fileVersions |-> fileVersions,
     isServiceInitialized |-> isServiceInitialized,
     currentWorkspaceRoot |-> currentWorkspaceRoot]

SetSession(x) ==
    /\ languageService' = x.languageService
    /\ program' = x.program
    /\ typeChecker' = x.typeChecker
    /\ serviceHost' = x.serviceHost
    /\ fileCache' = x.fileCache
    /\ fileVersions' = x.fileVersions
    /\ isServiceInitialized' = x.isServiceInitialized
    /\ currentWorkspaceRoot' = x.currentWorkspaceRoot

Maps(x) == [cache |-> x.fileCache, versions |-> x.fileVersions]
WithMaps(x, s) == [x EXCEPT !.fileCache = s.cache, !.fileVersions = s.versions]

\* the test that decides on (re-)initialization (line 97)
needsInitFlagOnly(x, rootPath) == ~x.isServiceInitialized
needsInit(x, rootPath) ==
    ~x.isServiceInitialized \/ x.currentWorkspaceRoot # rootPath

\* initializeTypeScriptService after the walk (lines 241-278): the host,
\* the service, the first program and its checker.  With `ok` false
\* getProgram() throws at line 277, after languageService was assigned.
buildService(x, rootPath, files, id, ok) ==
    LET host == [rootPath |-> rootPath, files |-> files]
        ls0  == [id |-> id, host |-> host, hasProgram |-> FALSE, parsed |-> << >>,
                 reads |-> {}]
        r    == getProgram(ls0, Maps(x))
    IN  IF ~ok
        THEN [x EXCEPT !.serviceHost = host, !.languageService = ls0]
        ELSE [WithMaps(x, r.s) EXCEPT
                !.serviceHost = host,
                !.languageService = r.ls,
                !.program = [service |-> id],
                !.typeChecker = [service |-> id, rootPath |-> rootPath]]

\* lines 100-101
markInitialized(x, rootPath) ==
    [x EXCEPT !.currentWorkspaceRoot = rootPath, !.isServiceInitialized = TRUE]

\* lines 113-124: the document's text goes to the cache, and the version
\* is raised when the text differs from the cached one
updateFile(x, fileName, currentContent) ==
    IF ~Has(x.fileCache, fileName) \/ x.fileCache[fileName] # currentContent
    THEN [x EXCEPT !.fileCache = Put(@, fileName, currentContent),
                   !.fileVersions =
                       Put(@, fileName, getScriptVersion(Maps(x), fileName) + 1)]
    ELSE x

\* lines 107-198 of getVariableType: the session after the query, the text
\* of the source file the type was read from (Null when there was none)
\* and the string returned (Null for null).  With `ok` false the checker
\* throws at line 150 and the catch of line 199 returns null; `threw`
\* tells that this happened.
queryType(x, doc, position, text, ok) ==
    IF x.languageService = NullObj \/ x.typeChecker = NullObj
    THEN [x |-> x, parsedText |-> Null, typeInfo |-> Null, threw |-> FALSE]
    ELSE LET fileName == DocPath(doc)
             x1 == updateFile(x, fileName, text)
             r  == getProgram(x1.languageService, Maps(x1))
             x2 == [WithMaps(x1, r.s) EXCEPT !.languageService = r.ls]
         IN  IF ~Has(r.ls.parsed, fileName)
             THEN [x |-> x2, parsedText |-> Null, typeInfo |-> Null,
                   threw |-> FALSE]
             ELSE LET src  == r.ls.parsed[fileName].text
                      tree == ParseOf(src)
                      node == findMostSpecificNodeAtPosition(
                                  tree, offsetAt(text, position))
                  IN  IF node = 0 \/ ~ok
                      THEN [x |-> x2, parsedText |-> src, typeInfo |-> Null,
                            threw |-> node # 0]
                      ELSE [x |-> x2, parsedText |-> src, threw |-> FALSE,
                            typeInfo |-> typeStringOfNode(node, tree.parent,
                                                          TypesOf(src))]

(***************************************************************************)
(* Spec: the command copy-type.copyTypeAtCursor (lines 22-74).  An         *)
(* invocation is suspended at its awaits; its record holds the handler's   *)
(* position and locals.                                                    *)
(*   task  - withProgress was called, the task has not started             *)
(*   files - initializeTypeScriptService awaits getAllTsFiles (line 239)   *)
(*   init  - getVariableType awaits initializeTypeScriptService (line 99)  *)
(*   type  - the task awaits getVariableType (line 59)                     *)
(*   clip  - the task awaits clipboard.writeText (line 64)                 *)
(*   done  - the handler has returned; outcome is the notification shown   *)
(***************************************************************************)
MaxInvocations == 2   \* SpecRace: command invocations in flight at once
MaxVersion == 3       \* file versions are followed up to this value
MaxServices == 3      \* language services created in one activation
MaxPosition == 2      \* cursor positions run over 0..MaxPosition

Slots == DOMAIN inv

IdleInv ==
    [pc |-> "idle", doc |-> Null, position |-> 0, rootPath |-> Null,
     files |-> <<>>, didInit |-> FALSE, currentContent |-> Null,
     parsedText |-> Null, typeInfo |-> Null, threw |-> FALSE,
     outcome |-> Null]

\* the version the session reports for a path
VersionOf(path) == getScriptVersion([cache |-> fileCache, versions |-> fileVersions], path)

\* the query of invocation i runs to its return (line 107 onwards)
RunQuery(i, x, ok) ==
    LET text == docText[inv[i].doc]
        q    == queryType(x, inv[i].doc, inv[i].position, text, ok)
    IN  /\ getScriptVersion(Maps(q.x), DocPath(inv[i].doc)) <= MaxVersion
        /\ SetSession(q.x)
        /\ inv' = [inv EXCEPT ![i].pc = "type",
                              ![i].currentContent =
                                  IF x.languageService = NullObj \/ x.typeChecker = NullObj
                                  THEN Null ELSE text,
                              ![i].parsedText = q.parsedText,
                              ![i].typeInfo = q.typeInfo,
                              ![i].threw = q.threw]

\* lines 23-48: how the handler ends before any query: the error without
\* an editor, the warning without a selection or a word, Null to go on
entryOutcomeNoError(hasEditor, hasSelectedText) ==
    IF ~hasEditor \/ ~hasSelectedText THEN "warning" ELSE Null
entryOutcome(hasEditor, hasSelectedText) ==
    IF ~hasEditor THEN "error"
    ELSE IF ~hasSelectedText THEN "warning"
    ELSE Null

\* lines 23-52: the editor, the selection or the word at the cursor, and
\* the call of withProgress
Start(i) ==
    /\ inv[i].pc = "idle"
    /\ \E editor \in Docs \cup {Null}, hasWord \in BOOLEAN, position \in 0..MaxPosition :
          LET hasSelectedText ==
                  editor # Null /\ hasWord /\ docText[editor] # ""
              outcome == entryOutcome(editor # Null, hasSelectedText)
          IN  inv' = [inv EXCEPT ![i] =
                        IF outcome # Null
                        THEN [IdleInv EXCEPT !.pc = "done", !.doc = editor,
                                             !.outcome = outcome]
                        ELSE [IdleInv EXCEPT !.pc = "task", !.doc = editor,
                                             !.position = position]]
    /\ UNCHANGED <<wk, rs, sessionVars, docText, clipboard, svcCount, hoverVars>>

\* lines 57-59 and 86-92: the task starts getVariableType for a document
\* outside every workspace folder, which returns null
TaskNoFolder(i) ==
    /\ inv[i].pc = "task"
    /\ DocFolder(inv[i].doc) = Null
    /\ inv' = [inv EXCEPT ![i].pc = "type"]
    /\ UNCHANGED <<wk, rs, sessionVars, docText, clipboard, svcCount, hoverVars>>

\* lines 94-99 and 206-239: the session must be (re-)initialized;
\* initializeTypeScriptService runs up to its await of getAllTsFiles
TaskInit(i) ==
    /\ inv[i].pc = "task"
    /\ DocFolder(inv[i].doc) # Null
    /\ needsInit(Session, DocFolder(inv[i].doc))
    /\ svcCount < MaxServices
    /\ LET rootPath == DocFolder(inv[i].doc)
       IN  inv' = [inv EXCEPT ![i].pc = "files",
                              ![i].rootPath = rootPath,
                              ![i].didInit = TRUE,
                              ![i].files = getAllTsFiles(<< <<rootPath>> >>, FsTree(rootPath))]
    /\ UNCHANGED <<wk, rs, sessionVars, docText, clipboard, svcCount, hoverVars>>

\* lines 94-104 and 107-198: the cached service is used and the query
\* runs to its return
TaskCached(i) ==
    /\ inv[i].pc = "task"
    /\ DocFolder(inv[i].doc) # Null
    /\ ~needsInit(Session, DocFolder(inv[i].doc))
    /\ \E ok \in BOOLEAN : RunQuery(i, Session, ok)
    /\ UNCHANGED <<wk, rs, docText, clipboard, svcCount, hoverVars>>

\* lines 241-279: the host, the service, the program and the checker; when
\* the engine throws, the catch of getVariableType returns null
Build(i) ==
    /\ inv[i].pc = "files"
    /\ \E ok \in BOOLEAN :
          /\ SetSession(buildService(Session, inv[i].rootPath, inv[i].files,
                                     svcCount + 1, ok))
          /\ inv' = [inv EXCEPT ![i].pc = IF ok THEN "init" ELSE "type",
                                 ![i].threw = ~ok]
    /\ svcCount' = svcCount + 1
    /\ UNCHANGED <<wk, rs, docText, clipboard, hoverVars>>

\* lines 100-198: the root and the flag are set and the query runs to its
\* return
Initialized(i) ==
    /\ inv[i].pc = "init"
    /\ \E ok \in BOOLEAN :
          RunQuery(i, markInitialized(Session, inv[i].rootPath), ok)
    /\ UNCHANGED <<wk, rs, docText, clipboard, svcCount, hoverVars>>

\* the test of the string returned (line 63)
hasTypeInfoAlways(typeInfo) == TRUE
hasTypeInfo(typeInfo) == typeInfo # Null /\ typeInfo # ""

\* lines 61-64: a string was returned and clipboard.writeText is called
Write(i) ==
    /\ inv[i].pc = "type"
    /\ hasTypeInfo(inv[i].typeInfo)
    /\ clipboard' = inv[i].typeInfo
    /\ inv' = [inv EXCEPT ![i].pc = "clip"]
    /\ UNCHANGED <<wk, rs, sessionVars, docText, svcCount, hoverVars>>

\* lines 66-68: nothing was returned: the warning
Warn(i) ==
    /\ inv[i].pc = "type"
    /\ ~hasTypeInfo(inv[i].typeInfo)
    /\ inv' = [inv EXCEPT ![i] = [IdleInv EXCEPT !.pc = "done", !.doc = inv[i].doc,
                                                 !.threw = inv[i].threw,
                                                 !.outcome = "warning"]]
    /\ UNCHANGED <<wk, rs, sessionVars, docText, clipboard, svcCount, hoverVars>>

\* line 65: the write has finished: the success notification
Copied(i) ==
    /\ inv[i].pc = "clip"
    /\ inv' = [inv EXCEPT ![i] = [IdleInv EXCEPT !.pc = "done", !.doc = inv[i].doc,
                                                 !.typeInfo = inv[i].typeInfo,
                                                 !.outcome = "copied"]]
    /\ UNCHANGED <<wk, rs, sessionVars, docText, clipboard, svcCount, hoverVars>>

\* the invocation is over
Finish(i) ==
    /\ inv[i].pc = "done"
    /\ inv' = [inv EXCEPT ![i] = IdleInv]
    /\ UNCHANGED <<wk, rs, sessionVars, docText, clipboard, svcCount, hoverVars>>

\* the user edits a document of the workspace.  Document changes reach the
\* extension host as events of their own, so none arrives while an
\* invocation is between two awaits that only yield to the microtask queue.
Edit(doc, text) ==
    /\ DocFolder(doc) # Null
    /\ docText[doc] # text
    /\ \A i \in Slots : inv[i].pc \notin {"files", "init", "type"}
    /\ docText' = [docText EXCEPT ![doc] = text]
    /\ UNCHANGED <<wk, rs, sessionVars, inv, clipboard, svcCount, hoverVars>>

\* the activation: the module state of lines 6-16, every document holding
\* the text of its file, no invocation in flight
Activated(n) ==
    /\ SessionInit
    /\ docText = [doc \in Docs |->
                     IF DocFolder(doc) = Null THEN "t" ELSE DiskText(DocPath(doc))]
    /\ inv = [i \in 1..n |-> IdleInv]
    /\ clipboard = Null
    /\ svcCount = 0
    /\ wk = WalkIdle
    /\ rs = ResolveIdle
    /\ HoverOff

\* Spec: the command dispatch serializes the invocations (one in flight)
Init == Activated(1)

Next ==
    \/ \E i \in Slots : Start(i)
    \/ \E i \in Slots : TaskNoFolder(i)
    \/ \E i \in Slots : TaskInit(i)
    \/ \E i \in Slots : TaskCached(i)
    \/ \E i \in Slots : Build(i)
    \/ \E i \in Slots : Initialized(i)
    \/ \E i \in Slots : Write(i)
    \/ \E i \in Slots : Warn(i)
    \/ \E i \in Slots : Copied(i)
    \/ \E i \in Slots : Finish(i)
    \/ \E doc \in Docs, text \in Texts : Edit(doc, text)

Spec == Init /\ [][Next]_vars

\* SpecRace: invocations in flight together, interleaved at their awaits,
\* on documents that are not edited meanwhile
RaceInit == Activated(MaxInvocations)

RaceNext ==
    \/ \E i \in Slots : Start(i)
    \/ \E i \in Slots : TaskNoFolder(i)
    \/ \E i \in Slots : TaskInit(i)
    \/ \E i \in Slots : TaskCached(i)
    \/ \E i \in Slots : Build(i)
    \/ \E i \in Slots : Initialized(i)
    \/ \E i \in Slots : Write(i)
    \/ \E i \in Slots : Warn(i)
    \/ \E i \in Slots : Copied(i)
    \/ \E i \in Slots : Finish(i)

SpecRace == RaceInit /\ [][RaceNext]_vars

(***************************************************************************)
(* Claims about the session and the command (Spec).                        *)
(***************************************************************************)
Paths == {DocPath(doc) : doc \in Docs}

\* the workspace root a path lies under
PathRoot(path) == path[1][1]

\* invocation i takes the step in which its query passes the null check
\* of line 107 and runs to its return
QueryStep(i) ==
    /\ inv[i].pc \in {"task", "init"}
    /\ inv'[i].pc = "type"
    /\ inv'[i].currentContent # Null

\* C1: a query whose document text equals the cached text of its path
\* leaves the path's version unchanged, and a query whose document text
\* differs from the cached text raises the path's version by exactly 1.
C1_VersionPerQuery ==
    [][\A i \in Slots :
          QueryStep(i) =>
              LET path == DocPath(inv[i].doc)
                  text == inv'[i].currentContent
              IN  IF Has(fileCache, path) /\ fileCache[path] = text
                  THEN VersionOf(path)' = VersionOf(path)
                  ELSE VersionOf(path)' = VersionOf(path) + 1]_vars

\* C2: for every path, the version the session reports never decreases.
C2_VersionMonotone ==
    [][\A path \in Paths : VersionOf(path)' >= VersionOf(path)]_vars

\* invocation i takes the step that completes a re-initialization for a
\* root that differs from the active one
ReinitCompletes(i) ==
    /\ inv[i].pc = "init"
    /\ inv'[i].pc = "type"
    /\ currentWorkspaceRoot # Null
    /\ currentWorkspaceRoot # inv[i].rootPath

\* C3: when a query arrives for a root other than the active one, the
\* re-initialization is a full reset: once it completes, the cache and the
\* version table hold no entry recorded under the previous root, and the
\* language service, the program and the checker are newly built.
C3_FullReset ==
    [][\A i \in Slots :
          ReinitCompletes(i) =>
              /\ \A path \in DOMAIN fileCache' \cup DOMAIN fileVersions' :
                    PathRoot(path) # currentWorkspaceRoot
              /\ languageService'.id = svcCount
              /\ program'.service = svcCount
              /\ typeChecker'.service = svcCount]_vars

\* C4: a query for a document of a workspace folder runs
\* initializeTypeScriptService if and only if no session is initialized or
\* the folder differs from currentWorkspaceRoot; a query that does not run
\* it uses the language service instance that was there before, and no
\* language service is created outside initializeTypeScriptService.
C4_InitIffNeeded ==
    [][/\ \A i \in Slots :
             (inv[i].pc = "task" /\ inv'[i].pc # "task"
                 /\ DocFolder(inv[i].doc) # Null) =>
                 /\ (inv'[i].pc = "files") <=>
                        (\/ ~isServiceInitialized
                         \/ currentWorkspaceRoot # DocFolder(inv[i].doc))
                 /\ (inv'[i].pc # "files") =>
                        (/\ languageService'.id = languageService.id
                         /\ svcCount' = svcCount)
       /\ (svcCount' # svcCount) =>
             \E i \in Slots : inv[i].pc = "files" /\ inv[i].didInit]_vars

\* after a switch of the root (two services were created), a query on the
\* active root has been answered by the service that was there
C4_Witness ==
    \E i \in Slots :
        /\ inv[i].pc = "type"
        /\ ~inv[i].didInit
        /\ inv[i].currentContent # Null
        /\ DocFolder(inv[i].doc) = currentWorkspaceRoot
        /\ svcCount = 2
        /\ languageService.id = 2

\* C5: the text of the active file that the engine parses to answer a
\* query is the document text supplied at that query.
C5_ParsesDocumentText ==
    \A i \in Slots :
        (inv[i].pc = "type" /\ inv[i].parsedText # Null) =>
            inv[i].parsedText = inv[i].currentContent

\* C7: the command never reports 'any' as a success: when the string
\* returned is 'any', nothing is written to the clipboard and the command
\* ends with the warning.
C7_NeverCopiesAny ==
    /\ clipboard # "any"
    /\ \A i \in Slots : inv[i].typeInfo = "any" => inv[i].outcome # "copied"

\* the three ways a command ends
Outcomes == {"copied", "warning", "error"}

\* invocation i of the command of lines 22-74 ends in this step
Ends(i) == inv[i].pc # "done" /\ inv'[i].pc = "done"

\* an invocation of the command of getVariableType that ends ends with
\* one of the three outcomes; with the success it has written the string
\* its notification carries; with the warning or the error it has written
\* nothing; without an editor it ends with the error
RichEndsRight(i) ==
    /\ inv'[i].outcome \in Outcomes
    /\ clipboard' = clipboard
    /\ (inv'[i].outcome = "copied") <=> (inv[i].pc = "clip")
    /\ (inv'[i].outcome = "copied") => (clipboard = inv'[i].typeInfo)
    /\ (inv'[i].outcome # "copied") => (inv[i].pc \in {"idle", "type"})
    /\ (inv'[i].doc = Null) => (inv'[i].outcome = "error")

\* the clipboard write of line 64
RichWrite ==
    \E i \in Slots : inv[i].pc = "type" /\ inv'[i].pc = "clip"
                         /\ clipboard' = inv[i].typeInfo

\* C13: when the construction of the engine or a type query throws during
\* a copy command, the command ends with the error notification and
\* without a clipboard write.
C13_EngineFailureIsError ==
    \A i \in Slots : (inv[i].pc = "done" /\ inv[i].threw) => inv[i].outcome = "error"

\* C19: a query for a document that belongs to no workspace folder yields
\* no type and leaves the session state unchanged (language service, type
\* checker, root, flag, cache, version table), and the command ends with
\* the warning and without a clipboard write.
C19_NoFolderNoEffect ==
    [][\A i \in Slots :
          /\ (inv[i].pc = "task" /\ inv'[i].pc # "task"
                 /\ DocFolder(inv[i].doc) = Null) =>
                 /\ sessionVars' = sessionVars
                 /\ inv'[i].pc = "type" /\ inv'[i].typeInfo = Null
                 /\ clipboard' = clipboard
          /\ (inv[i].pc = "type" /\ inv'[i].pc # "type"
                 /\ DocFolder(inv[i].doc) = Null) =>
                 /\ sessionVars' = sessionVars
                 /\ inv'[i].pc = "done" /\ inv'[i].outcome = "warning"
                 /\ clipboard' = clipboard]_vars

\* with a session initialized and a string on the clipboard, the query
\* for the document outside every folder has returned
C19_Witness ==
    \E i \in Slots :
        /\ inv[i].pc = "type"
        /\ DocFolder(inv[i].doc) = Null
        /\ isServiceInitialized
        /\ clipboard # Null

\* no invocation is inside the handler
AllFinished == \A i \in Slots : inv[i].pc \in {"idle", "done"}

\* C16: for any interleaving of two invocations at their awaits, every
\* invocation runs its type query against a language service and a type
\* checker constructed for its own workspace root, and when both have
\* finished currentWorkspaceRoot names the root the active language
\* service was built for.
C16_QueryOnOwnSession ==
    [][/\ \A i \in Slots :
             QueryStep(i) =>
                 /\ languageService.host.rootPath = DocFolder(inv[i].doc)
                 /\ typeChecker.rootPath = DocFolder(inv[i].doc)
       /\ (AllFinished' /\ isServiceInitialized' /\ languageService' # NullObj) =>
             languageService'.host.rootPath = currentWorkspaceRoot']_vars

(***************************************************************************)
(* The hover variant: provideHover keeps the last type it resolved and     *)
(* where, and the command copies it when the cursor is near.  The host is  *)
(* outside the code: what its hover and definition providers answer is     *)
(* fixed per document and position, and whether its hover query calls the  *)
(* extension's own provideHover again is the host's choice.                *)
(***************************************************************************)
MaxLine == 1          \* lines run over 0..MaxLine
MaxChar == 11         \* cursor characters run over 0..MaxChar
MaxHoverChar == 0     \* hovered characters run over 0..MaxHoverChar
MaxNest == 1          \* nested calls of provideHover followed per request
Tolerance == 10

HoverLanguages == {"typescript", "typescriptreact", "vue"}
HoverDocs == {"p", "q"}
languageId(doc) == IF doc = "p" THEN "typescript" ELSE "javascript"

Positions == [line : 0..MaxLine, character : 0..MaxChar]
HoverPositions == [line : 0..MaxLine, character : 0..MaxHoverChar]

\* what stands at a position of a document: 0 a number constant, 1 a
\* variable of an object type, 2 a word with a definition and no hover,
\* 3 nothing
KindAt(doc, position) ==
    (position.character + 2 * position.line + (IF doc = "q" THEN 1 ELSE 0)) % 4

\* the code block of the hover the host's TypeScript provider answers
QuickInfoAt(doc, position) ==
    CASE KindAt(doc, position) = 0 -> <<"const", "n", ":", "number">>
      [] KindAt(doc, position) = 1 ->
             <<"let", "o", ":", "{", "a", ":", "string", "}">>
      [] OTHER -> NoInfo

\* vscode.executeDefinitionProvider answers a location
HasDefinition(doc, position) == KindAt(doc, position) \in {0, 1, 2}

\* document.getWordRangeAtPosition and getText of it
WordAt(doc, position) ==
    CASE KindAt(doc, position) = 0 -> <<"n">>
      [] KindAt(doc, position) = 1 -> <<"o">>
      [] KindAt(doc, position) = 2 -> <<"w">>
      [] OTHER -> NoInfo

\* lines 99-105: typeStr.match(/:\s*(.+)$/): what follows the first ':'
\* when something follows it, the whole string otherwise
extractType(typeStr) ==
    LET colons == {i \in 1..(Len(typeStr) - 1) : typeStr[i] = ":"}
    IN  IF colons = {} THEN typeStr
        ELSE LET first == CHOOSE i \in colons : \A j \in colons : i <= j
             IN  SubSeq(typeStr, first + 1, Len(typeStr))

\* getTypeAtPosition (lines 77-134) once the host has answered: `block` is
\* the typescript code block of quickInfo[0] (NoInfo when there is none);
\* with `ok` false a host command rejects and the catch returns null
getTypeAtPosition(doc, position, block, ok) ==
    IF ~ok THEN NoInfo
    ELSE IF block # NoInfo THEN extractType(block)
    ELSE IF HasDefinition(doc, position) /\ WordAt(doc, position) # NoInfo
    THEN WordAt(doc, position) \o <<"(type information available)">>
    ELSE NoInfo

\* One resolution.  With `reenter` the host's hover query has called the
\* extension's provideHover for the same position (the document's language
\* is one of line 19) and that call has finished: `nested` is the string
\* it stored and showed.  The hover of the extension carries that string
\* as its code block; `oursFirst` puts it ahead of the host's own.
resolve(doc, position, ok, reenter, oursFirst) ==
    LET own    == QuickInfoAt(doc, position)
        nested == IF reenter /\ languageId(doc) \in HoverLanguages
                  THEN getTypeAtPosition(doc, position, own, ok)
                  ELSE NoInfo
        block  == IF nested # NoInfo /\ (oursFirst \/ own = NoInfo)
                  THEN nested ELSE own
    IN  [typeInfo |-> getTypeAtPosition(doc, position, block, ok),
         nested |-> nested]

\* Math.abs(a - b)
Distance(a, b) == IF a >= b THEN a - b ELSE b - a

\* lines 54-56: the cached pair is used for this cursor position
cacheHit(position) ==
    /\ currentTypeInfo # NoInfo
    /\ currentPosition # NullObj
    /\ currentPosition.line = position.line
    /\ Distance(currentPosition.character, position.character) < Tolerance

\* lines 21-23: the host asks for a hover in a document of a registered
\* language; getTypeAtPosition awaits the host
HoverAsked ==
    /\ hr.pc = "idle"
    /\ \E doc \in HoverDocs, position \in HoverPositions :
          /\ languageId(doc) \in HoverLanguages
          /\ hr' = [HoverIdle EXCEPT !.pc = "resolve", !.doc = doc,
                                     !.position = position]
    /\ UNCHANGED <<wk, rs, sessionVars, hostVars, currentTypeInfo, currentPosition, cachedDoc, cp>>

\* lines 21-23 and 83-87, nested: to answer the hover query of
\* getTypeAtPosition the host asks every hover provider of the document,
\* the one of line 18 among them when the language is one of line 19;
\* that provideHover calls getTypeAtPosition, which sends a hover query of
\* its own.  `depth` counts the calls of provideHover that wait this way
\* below the request.
HoverReentered ==
    /\ hr.pc = "resolve"
    /\ languageId(hr.doc) \in HoverLanguages
    /\ hr.depth < MaxNest
    /\ hr' = [hr EXCEPT !.depth = @ + 1]
    /\ UNCHANGED <<wk, rs, sessionVars, hostVars, currentTypeInfo, currentPosition, cachedDoc, cp>>

\* lines 23-37: the type has arrived (the nested calls, if any, have
\* returned); a truthy one is stored with the position and shown
HoverAnswered ==
    /\ hr.pc = "resolve"
    /\ \E ok \in BOOLEAN, oursFirst \in BOOLEAN :
          LET r == resolve(hr.doc, hr.position, ok, hr.depth > 0, oursFirst)
              stored == IF r.typeInfo # NoInfo THEN r.typeInfo ELSE r.nested
          IN  /\ hr' = [hr EXCEPT !.pc = "done", !.typeInfo = r.typeInfo,
                                  !.depth = 0]
              /\ currentTypeInfo' =
                     IF stored # NoInfo THEN stored ELSE currentTypeInfo
              /\ currentPosition' =
                     IF stored # NoInfo THEN hr.position ELSE currentPosition
              /\ cachedDoc' = IF stored # NoInfo THEN hr.doc ELSE cachedDoc
    /\ UNCHANGED <<wk, rs, sessionVars, hostVars, cp>>

\* the hover was handed to the host
HoverShown ==
    /\ hr.pc = "done"
    /\ hr' = HoverIdle
    /\ UNCHANGED <<wk, rs, sessionVars, hostVars, currentTypeInfo, currentPosition, cachedDoc, cp>>

\* lines 43-64: the command starts: the error without an editor, the
\* cached string written when the cursor is near the cached position,
\* getTypeAtPosition awaited otherwise.  `prev` and `repeat` remember the
\* string the invocation before wrote and whether this one is at the same
\* position of the same document.
CopyStart ==
    /\ cp.pc \in {"idle", "done"}
    /\ \E editor \in HoverDocs \cup {Null}, position \in Positions :
          LET again == [CopyIdle EXCEPT
                           !.doc = editor,
                           !.position = IF editor = Null THEN NullObj ELSE position,
                           !.prev = IF cp.outcome = "copied" THEN cp.typeInfo
                                    ELSE NoInfo,
                           !.repeat = /\ cp.outcome = "copied"
                                      /\ editor = cp.doc
                                      /\ position = cp.position]
          IN  IF editor = Null
              THEN /\ cp' = [again EXCEPT !.pc = "done", !.outcome = "error"]
                   /\ clipboard' = clipboard
              ELSE IF cacheHit(position)
              THEN /\ cp' = [again EXCEPT !.pc = "clip",
                                          !.typeInfo = currentTypeInfo]
                   /\ clipboard' = currentTypeInfo
              ELSE /\ cp' = [again EXCEPT !.pc = "resolve"]
                   /\ clipboard' = clipboard
    /\ UNCHANGED <<wk, rs, sessionVars, docText, inv, svcCount, currentTypeInfo, currentPosition, cachedDoc, hr>>

\* lines 64 and 83-87, nested: the hover query of the command's
\* getTypeAtPosition reaches provideHover in the same way
CopyReentered ==
    /\ cp.pc = "resolve"
    /\ languageId(cp.doc) \in HoverLanguages
    /\ cp.depth < MaxNest
    /\ cp' = [cp EXCEPT !.depth = @ + 1]
    /\ UNCHANGED <<wk, rs, sessionVars, hostVars, currentTypeInfo, currentPosition, cachedDoc, hr>>

\* lines 64-70: the type has arrived: a truthy one is written to the
\* clipboard, otherwise the warning
CopyAnswered ==
    /\ cp.pc = "resolve"
    /\ \E ok \in BOOLEAN, oursFirst \in BOOLEAN :
          LET r == resolve(cp.doc, cp.position, ok, cp.depth > 0, oursFirst)
          IN  /\ cp' = IF r.typeInfo # NoInfo
                       THEN [cp EXCEPT !.pc = "clip", !.typeInfo = r.typeInfo,
                                       !.depth = 0]
                       ELSE [cp EXCEPT !.pc = "done", !.outcome = "warning",
                                       !.depth = 0]
              /\ clipboard' = IF r.typeInfo # NoInfo THEN r.typeInfo ELSE clipboard
              /\ currentTypeInfo' =
                     IF r.nested # NoInfo THEN r.nested ELSE currentTypeInfo
              /\ currentPosition' =
                     IF r.nested # NoInfo THEN cp.position ELSE currentPosition
              /\ cachedDoc' = IF r.nested # NoInfo THEN cp.doc ELSE cachedDoc
    /\ UNCHANGED <<wk, rs, sessionVars, docText, inv, svcCount, hr>>

\* lines 59-60 and 67: the write has finished: the success notification
CopyWritten ==
    /\ cp.pc = "clip"
    /\ cp' = [cp EXCEPT !.pc = "done", !.outcome = "copied"]
    /\ UNCHANGED <<wk, rs, sessionVars, hostVars, currentTypeInfo, currentPosition, cachedDoc, hr>>

HoverInit ==
    /\ SessionInit
    /\ docText = << >>
    /\ inv = << >>
    /\ clipboard = NoInfo
    /\ svcCount = 0
    /\ wk = WalkIdle
    /\ rs = ResolveIdle
    /\ HoverOff

HoverNext ==
    \/ HoverAsked
    \/ HoverReentered
    \/ HoverAnswered
    \/ HoverShown
    \/ CopyStart
    \/ CopyReentered
    \/ CopyAnswered
    \/ CopyWritten

SpecHover == HoverInit /\ [][HoverNext]_vars

(***************************************************************************)
(* Claims about the hover variant (SpecHover).                             *)
(***************************************************************************)

\* the command starts in this step, with an editor
CopyStarts == cp.pc \in {"idle", "done"} /\ cp'.pc \in {"clip", "resolve"}

\* C14: with a cached pair present, a command at a position on the line
\* of the cached position and at most 10 characters from it writes the
\* cached string without resolving again; at a position farther away or
\* on another line it resolves again.
C14_ToleranceTen ==
    [][(CopyStarts /\ currentTypeInfo # NoInfo /\ currentPosition # NullObj) =>
          IF /\ currentPosition.line = cp'.position.line
             /\ Distance(currentPosition.character, cp'.position.character) <= 10
          THEN cp'.pc = "clip" /\ clipboard' = currentTypeInfo
          ELSE cp'.pc = "resolve" /\ clipboard' = clipboard]_vars

\* C15: two consecutive invocations of the command at the same cursor
\* position of the same document, the document not edited in between,
\* write identical strings to the clipboard.
C15_SameTwice ==
    (cp.pc = "done" /\ cp.outcome = "copied" /\ cp.repeat) => cp.typeInfo = cp.prev

\* C20: after every successful resolution, by a hover or by the command
\* resolving again, the cached pair is that resolution's string and
\* position.
C20_CacheIsLatest ==
    [][/\ (hr.pc = "resolve" /\ hr'.pc = "done" /\ hr'.typeInfo # NoInfo) =>
             (currentTypeInfo' = hr'.typeInfo /\ currentPosition' = hr.position)
       /\ (cp.pc = "resolve" /\ cp'.pc = "clip") =>
             (currentTypeInfo' = cp'.typeInfo /\ currentPosition' = cp.position)]_vars

\* the command of the hover variant ends in this step
CopyEnds == cp' # cp /\ cp'.pc = "done"

\* the same for the command of the hover variant (lines 43-71)
HoverEndsRight ==
    /\ cp'.outcome \in Outcomes
    /\ clipboard' = clipboard
    /\ (cp'.outcome = "copied") <=> (cp.pc = "clip")
    /\ (cp'.outcome = "copied") => (clipboard = cp'.typeInfo)
    /\ (cp'.outcome # "copied") => (cp.pc \in {"idle", "done", "resolve"})
    /\ (cp'.doc = Null) => (cp'.outcome = "error")

\* the clipboard writes of lines 58 and 66
HoverWrite == cp.pc # "clip" /\ cp'.pc = "clip" /\ clipboard' = cp'.typeInfo

C21_VersionNamesOneText ==
    languageService # NullObj =>
        \A r1, r2 \in languageService.reads :
            (r1.file = r2.file /\ r1.version = r2.version) => r1.text = r2.text

(***************************************************************************)
(* Claims about the document of the cached pair (SpecHover).  cachedDoc    *)
(* remembers the document provideHover was asked about when it stored the  *)
(* pair; the extension itself keeps no such record.                        *)
(***************************************************************************)
\* C22: the command writes the cached hover string to the clipboard only
\* when that string was resolved for the document of the active editor.
C22_CacheOfSameDocument ==
    [][(CopyStarts /\ cp'.pc = "clip") => cachedDoc = cp'.doc]_vars

(***************************************************************************)
(* Deactivation (lines 370-379).  The host calls deactivate as an event of *)
(* its own, so it does not arrive while an invocation is between two       *)
(* awaits that only yield to the microtask queue; invocations that wait    *)
(* for the host (the progress task, the clipboard) may be in flight.       *)
(***************************************************************************)
deactivateKeepsFlag(x) ==
    [x EXCEPT !.languageService = NullObj, !.program = NullObj,
              !.typeChecker = NullObj, !.serviceHost = NullObj,
              !.fileCache = << >>, !.fileVersions = << >>,
              !.currentWorkspaceRoot = Null]
deactivate(x) ==
    [x EXCEPT !.languageService = NullObj, !.program = NullObj,
              !.typeChecker = NullObj, !.serviceHost = NullObj,
              !.fileCache = << >>, !.fileVersions = << >>,
              !.isServiceInitialized = FALSE,
              !.currentWorkspaceRoot = Null]

Deactivate ==
    /\ languageService # NullObj
    /\ \A i \in Slots : inv[i].pc \notin {"files", "init", "type"}
    /\ SetSession(deactivate(Session))
    /\ UNCHANGED <<wk, rs, hostVars, hoverVars>>

\* SpecLife: SpecRace with the deactivation
LifeNext ==
    \/ \E i \in Slots : Start(i)
    \/ \E i \in Slots : TaskNoFolder(i)
    \/ \E i \in Slots : TaskInit(i)
    \/ \E i \in Slots : TaskCached(i)
    \/ \E i \in Slots : Build(i)
    \/ \E i \in Slots : Initialized(i)
    \/ \E i \in Slots : Write(i)
    \/ \E i \in Slots : Warn(i)
    \/ \E i \in Slots : Copied(i)
    \/ \E i \in Slots : Finish(i)
    \/ Deactivate

SpecLife == RaceInit /\ [][LifeNext]_vars

\* no invocation is inside initializeTypeScriptService or about to set the
\* flag of line 101
NoInitInFlight == \A i \in Slots : inv[i].pc \notin {"files", "init"}

\* C23: whenever isServiceInitialized is true and no initialization is in
\* flight, languageService and typeChecker are both non-null; so a query
\* that uses the cached service (line 104) never returns null at line 108.
C23_InitializedHasChecker ==
    [][/\ (isServiceInitialized' /\ NoInitInFlight') =>
             (languageService' # NullObj /\ typeChecker' # NullObj)
       /\ \A i \in Slots :
             (/\ inv[i].pc = "task" /\ inv'[i].pc = "type"
              /\ DocFolder(inv[i].doc) # Null) =>
                 (languageService # NullObj /\ typeChecker # NullObj)]_vars

\* the session is initialized for root A by the second language service
\* created, no initialization is in flight, and a query for a.ts has used
\* the cached service
C23_Witness ==
    /\ svcCount = 2
    /\ isServiceInitialized /\ NoInitInFlight
    /\ languageService # NullObj /\ languageService.id = 2
    /\ currentWorkspaceRoot = "A"
    /\ \E i \in Slots : inv[i].pc = "type" /\ ~inv[i].didInit /\ inv[i].doc = "a"

(***************************************************************************)
(* Termination of the hover variant's resolutions (SpecHoverFair).  The    *)
(* host does what it is asked to: it calls the providers of a hover query  *)
(* (HoverReentered, CopyReentered), takes the hover it is handed           *)
(* (HoverShown), completes clipboard.writeText (CopyWritten) and answers a *)
(* hover query in a document for which the extension has no provider       *)
(* (AnsweredByHost).  The answer to a query in a document of a registered  *)
(* language waits for the provideHover the query has called, hence for the *)
(* query that call has sent in turn: nothing in lines 21-37 or 77-134      *)
(* ends that chain, so no fairness is assumed for it.                      *)
(***************************************************************************)
AnsweredByHost == CopyAnswered /\ languageId(cp.doc) \notin HoverLanguages

SpecHoverFair ==
    /\ HoverInit /\ [][HoverNext]_vars
    /\ WF_vars(HoverReentered) /\ WF_vars(CopyReentered)
    /\ WF_vars(HoverShown) /\ WF_vars(CopyWritten)
    /\ WF_vars(AnsweredByHost)

====
